---- MODULE Spec2Model ----
(***************************************************************************)
(* The input object type rules of apollo-parser                            *)
(* (crates/apollo-parser/src/parser/grammar/input.rs) as a state machine.  *)
(*                                                                         *)
(* The lexer hands the parser a finite token stream.  The parser looks one *)
(* token ahead, so the stream is revealed one token at a time (action Lex) *)
(* exactly when the parser is about to peek at a token it has not seen:    *)
(* every finite stream over Alphabet that starts with `input` or           *)
(* `extend input` is covered up to MaxTokens tokens.                       *)
(*                                                                         *)
(* The Parser value p holds the cursor (pos), the tree under construction  *)
(* (tree: the nodes in document order, each with its depth), the builder's *)
(* stack of open frames (stack), the error sink (errs) and the record of   *)
(* every frame closing (closed: <<guard, frame popped>>).                  *)
(***************************************************************************)
EXTENDS Integers, Sequences, FiniteSets, TLC

\* Longest token stream the lexer supplies (keywords included).
MaxTokens == 10

None == "<none>"
NoData == "no further data"

\* Token kinds after the keywords.  Str is a string value: a description or
\* a default value.
Alphabet == {"Name", "@", "{", "}", ":", ",", "[", "]", "!", "=", "Str"}

NameErr == "Expected Input Object Type Definition to have a Name"
ExtErr == "Expected Input Object Type Extension to have Directives or Input Fields Definition"
ClosingErr == "Expected Fields Definition to have a closing }"
IvdTypeErr == "Expected InputValue definition to have a Type"
IvdNameErr == "Expected InputValue definition to have a Name"
EmptyErr == "Expected to have an InputValue definition"
DirectiveErr == "Expected Directive to have a Name"
TypeErr == "Expected a Type"
ListErr == "Expected List Type to have a closing ]"
ValueErr == "Expected Default Value to have a Value"

IOTD == "INPUT_OBJECT_TYPE_DEFINITION"
IOTE == "INPUT_OBJECT_TYPE_EXTENSION"
IFD == "INPUT_FIELDS_DEFINITION"
IVD == "INPUT_VALUE_DEFINITION"

VARIABLES
    toks,                \* the tokens the lexer has supplied so far
    eof,                 \* the parser has seen the end of the stream
    p,                   \* the Parser
    pc,                  \* where the rule is
    rule,                \* "definition" or "extension"
    meets_requirements,  \* input_object_type_extension's local
    is_input,            \* input_value_definition's parameter
    guard,               \* input_value_definition's guard
    ty_from,             \* cursor position at which ty::ty was entered
    ty_open,             \* list types ty::ty is inside of
    calls,               \* cursor position at each call of input_value_definition
    run,                 \* 1: the stream as lexed; 2: the same stream with its Name supplied
    first                \* the result of run 1, kept for comparison in run 2

vars == <<toks, eof, p, pc, rule, meets_requirements, is_input, guard,
          ty_from, ty_open, calls, run, first>>

Keywords(r) == IF r = "extension" THEN <<"extend", "input">> ELSE <<"input">>

NewParser == [pos |-> 0, tree |-> <<>>, stack |-> <<>>, errs |-> <<>>, closed |-> <<>>]

NoResult == [tree |-> <<>>, errs |-> <<>>, pc |-> "", pos |-> 0]

----
\* Token Cursor

Peek(q) == IF q.pos < Len(toks) THEN toks[q.pos + 1] ELSE None

PeekData(q) == Peek(q)

\* peek_data().unwrap_or_else(|| String::from("no further data"))
FoundOrNoData(q) == IF PeekData(q) = None THEN NoData ELSE PeekData(q)

\* The lookahead is known: a token was supplied, or the stream has ended.
Ready == p.pos < Len(toks) \/ eof

Node(kind, depth) == [kind |-> kind, depth |-> depth, leaf |-> FALSE, text |-> ""]

Leaf(kind, depth, text) == [kind |-> kind, depth |-> depth, leaf |-> TRUE, text |-> text]

\* Consume the next token and attach it as a leaf of the open frame.
Bump(q, kind) ==
    [q EXCEPT !.tree = Append(@, Leaf(kind, Len(q.stack), toks[q.pos + 1])),
              !.pos = @ + 1]

\* Consume the next token without attaching it.
Pop(q) == [q EXCEPT !.pos = @ + 1]

\* Error Sink
PushErr(q, msg, found) == [q EXCEPT !.errs = Append(@, [msg |-> msg, found |-> found])]

\* Tree Builder.  The guard start_node returns is the index of the node it opened.
StartNode(q, kind) ==
    [q EXCEPT !.tree = Append(@, Node(kind, Len(q.stack))),
              !.stack = Append(@, Len(q.tree) + 1)]

NextGuard(q) == Len(q.tree) + 1

\* The guard is released (finish_node(), or the end of its scope): the builder
\* closes the frame on top of its stack.
FinishNode(q, g) ==
    [q EXCEPT !.stack = SubSeq(@, 1, Len(@) - 1),
              !.closed = Append(@, <<g, q.stack[Len(q.stack)]>>)]

----
\* Sub-rules of other grammar files

\* name::name
NameRule(q) == FinishNode(Bump(StartNode(q, "NAME"), "IDENT"), NextGuard(q))

Shift(nodes, d) == [i \in 1..Len(nodes) |-> [nodes[i] EXCEPT !.depth = @ + d]]

RECURSIVE TyShape(_)
\* The nodes ty::ty builds for the type tokens ts, and the tokens left over.
TyShape(ts) ==
    IF ts = <<>> \/ Head(ts) \notin {"Name", "["}
    THEN [nodes |-> <<>>, rest |-> ts]
    ELSE LET base ==
                 IF Head(ts) = "Name"
                 THEN [nodes |-> <<Node("TYPE", 0), Node("NAMED_TYPE", 1)>>,
                       rest |-> Tail(ts)]
                 ELSE LET inner == TyShape(Tail(ts))
                      IN [nodes |-> <<Node("TYPE", 0), Node("LIST_TYPE", 1)>>
                                        \o Shift(inner.nodes, 2),
                          rest |-> IF inner.rest # <<>> /\ Head(inner.rest) = "]"
                                   THEN Tail(inner.rest) ELSE inner.rest]
         IN IF base.rest # <<>> /\ Head(base.rest) = "!"
            THEN [nodes |-> <<Node("TYPE", 0), Node("NON_NULL_TYPE", 1)>>
                              \o Shift(base.nodes, 2),
                  rest |-> Tail(base.rest)]
            ELSE base

\* ty::ty has consumed the tokens after ty_from: it builds its nodes, which
\* hold none of those tokens.
TyBuild(q) ==
    [q EXCEPT !.tree = @ \o Shift(TyShape(SubSeq(toks, ty_from + 1, q.pos)).nodes,
                                  Len(q.stack))]

----
\* Steps of input.rs that the rules below are built from

\* Mutant: an empty NAME node is built for the missing Name.
MissingName_Placeholder(q) ==
    PushErr(FinishNode(StartNode(q, "NAME"), NextGuard(q)), NameErr, FoundOrNoData(q))

\* Mutant: the unexpected token is skipped.
MissingName_Skips(q) == Pop(PushErr(q, NameErr, FoundOrNoData(q)))

\* input.rs:16-24 and 52-60: the Name is missing.
MissingName(q) == PushErr(q, NameErr, FoundOrNoData(q))

\* Mutant: the flag is not consulted.
MissingRequirements_Always(m) == TRUE

\* input.rs:73
MissingRequirements(m) == ~m

\* Mutant: the node is left open across the call.
FinishBeforeRecursing_Skipped(q, g) == q

\* input.rs:128: guard.finish_node() before the rule calls itself.
FinishBeforeRecursing(q, g) == FinishNode(q, g)

\* Mutant: the flag is passed on unset.
IsInputAfterElement_Unset == FALSE

\* input.rs:129: the is_input argument of the call after a complete element.
IsInputAfterElement == TRUE

\* Mutant: the separator is attached but the cursor stays.
BumpSeparator_Stays(q) == [Bump(q, "COMMA") EXCEPT !.pos = q.pos]

\* input.rs:149
BumpSeparator(q) == Bump(q, "COMMA")

\* Mutant: the node of a malformed element stays open.
DropGuard_Leaked(q, g) == q

\* input.rs:147: the guard's scope ends.
DropGuard(q, g) == FinishNode(q, g)

IfdNode(q) == CHOOSE i \in 1..Len(q.tree) : q.tree[i].kind = IFD

\* The rule returns: its _guard (the first node of the tree) is released.
Return(q) == FinishNode(q, 1)

----
Init ==
    /\ rule \in {"definition", "extension"}
    /\ toks = Keywords(rule)
    /\ eof = FALSE
    /\ p = NewParser
    /\ pc = "start"
    /\ meets_requirements = FALSE
    /\ is_input = FALSE
    /\ guard = 0
    /\ ty_from = 0
    /\ ty_open = 0
    /\ calls = <<>>
    /\ run = 1
    /\ first = NoResult

\* The parser is at a place where it peeks.
NeedsPeek ==
    /\ pc \notin {"start", "done", "panic"}
    /\ pc = "requirements" => MissingRequirements(meets_requirements)

\* The lexer supplies the next token, or the end of the stream.
Lex ==
    /\ NeedsPeek
    /\ p.pos = Len(toks)
    /\ ~eof
    /\ \/ eof' = TRUE /\ toks' = toks
       \/ /\ Len(toks) < MaxTokens
          /\ \E t \in Alphabet : toks' = Append(toks, t)
          /\ eof' = eof
    /\ UNCHANGED <<p, pc, rule, meets_requirements, is_input, guard,
                   ty_from, ty_open, calls, run, first>>

\* input.rs:11-12
input_object_type_definition ==
    /\ pc = "start"
    /\ rule = "definition"
    /\ p' = Bump(StartNode(p, IOTD), "input_KW")
    /\ pc' = "name"
    /\ UNCHANGED <<toks, eof, rule, meets_requirements, is_input, guard,
                   ty_from, ty_open, calls, run, first>>

\* input.rs:44-48
input_object_type_extension ==
    /\ pc = "start"
    /\ rule = "extension"
    /\ p' = Bump(Bump(StartNode(p, IOTE), "extend_KW"), "input_KW")
    /\ meets_requirements' = FALSE
    /\ pc' = "name"
    /\ UNCHANGED <<toks, eof, rule, is_input, guard,
                   ty_from, ty_open, calls, run, first>>

\* input.rs:14-25, 50-61
NameStep ==
    /\ pc = "name"
    /\ Ready
    /\ p' = IF Peek(p) = "Name" THEN NameRule(p) ELSE MissingName(p)
    /\ pc' = "directives"
    /\ UNCHANGED <<toks, eof, rule, meets_requirements, is_input, guard,
                   ty_from, ty_open, calls, run, first>>

\* input.rs:27-29, 63-66
DirectivesClause ==
    /\ pc = "directives"
    /\ Ready
    /\ IF Peek(p) = "@"
       THEN /\ meets_requirements' = (rule = "extension")
            /\ p' = StartNode(p, "DIRECTIVES")
            /\ pc' = "directive"
       ELSE /\ pc' = "fields"
            /\ UNCHANGED <<p, meets_requirements>>
    /\ UNCHANGED <<toks, eof, rule, is_input, guard,
                   ty_from, ty_open, calls, run, first>>

\* directive::directives: one directive after another
Directive ==
    /\ pc = "directive"
    /\ Ready
    /\ IF Peek(p) = "@"
       THEN /\ p' = Bump(StartNode(p, "DIRECTIVE"), "AT")
            /\ pc' = "directive_name"
       ELSE /\ p' = FinishNode(p, p.stack[Len(p.stack)])
            /\ pc' = "fields"
    /\ UNCHANGED <<toks, eof, rule, meets_requirements, is_input, guard,
                   ty_from, ty_open, calls, run, first>>

DirectiveName ==
    /\ pc = "directive_name"
    /\ Ready
    /\ LET q == IF Peek(p) = "Name" THEN NameRule(p)
                ELSE PushErr(p, DirectiveErr, FoundOrNoData(p))
       IN p' = FinishNode(q, q.stack[Len(q.stack)])
    /\ pc' = "directive"
    /\ UNCHANGED <<toks, eof, rule, meets_requirements, is_input, guard,
                   ty_from, ty_open, calls, run, first>>

\* input.rs:31-34, 68-71 and 93-95
FieldsClause ==
    /\ pc = "fields"
    /\ Ready
    /\ IF Peek(p) = "{"
       THEN /\ meets_requirements' = (rule = "extension")
            /\ p' = Bump(StartNode(p, IFD), "L_CURLY")
            /\ is_input' = FALSE
            /\ pc' = "ivd"
       ELSE /\ IF rule = "extension"
               THEN pc' = "requirements" /\ p' = p
               ELSE pc' = "done" /\ p' = Return(p)
            /\ UNCHANGED <<meets_requirements, is_input>>
    /\ UNCHANGED <<toks, eof, rule, guard, ty_from, ty_open, calls, run, first>>

\* input.rs:115-118
input_value_definition ==
    /\ pc = "ivd"
    /\ Ready
    /\ calls' = Append(calls, p.pos)
    /\ IF Peek(p) = "Name"
       THEN /\ guard' = NextGuard(p)
            /\ p' = NameRule(StartNode(p, IVD))
            /\ pc' = "ivd_colon"
       ELSE /\ pc' = "ivd_sep"
            /\ UNCHANGED <<p, guard>>
    /\ UNCHANGED <<toks, eof, rule, meets_requirements, is_input,
                   ty_from, ty_open, run, first>>

\* input.rs:119-120, 140-147
Colon ==
    /\ pc = "ivd_colon"
    /\ Ready
    /\ IF Peek(p) = ":"
       THEN p' = Bump(p, "COLON") /\ pc' = "ivd_type"
       ELSE IF PeekData(p) = None
            THEN pc' = "panic" /\ p' = p
            ELSE /\ p' = DropGuard(PushErr(p, IvdNameErr, PeekData(p)), guard)
                 /\ pc' = "ivd_sep"
    /\ UNCHANGED <<toks, eof, rule, meets_requirements, is_input, guard,
                   ty_from, ty_open, calls, run, first>>

\* input.rs:121-123, 132-139, 147
Type ==
    /\ pc = "ivd_type"
    /\ Ready
    /\ IF Peek(p) \in {"Name", "["}
       THEN /\ ty_from' = p.pos
            /\ ty_open' = 0
            /\ pc' = "ty"
            /\ p' = p
       ELSE /\ IF PeekData(p) = None
               THEN pc' = "panic" /\ p' = p
               ELSE /\ p' = DropGuard(PushErr(p, IvdTypeErr, PeekData(p)), guard)
                    /\ pc' = "ivd_sep"
            /\ UNCHANGED <<ty_from, ty_open>>
    /\ UNCHANGED <<toks, eof, rule, meets_requirements, is_input, guard,
                   calls, run, first>>

\* ty::ty: a named type, or the opening of a list type
TyToken ==
    /\ pc = "ty"
    /\ Ready
    /\ IF Peek(p) = "Name"
       THEN p' = Pop(p) /\ pc' = "ty_bang" /\ ty_open' = ty_open
       ELSE IF Peek(p) = "["
            THEN p' = Pop(p) /\ pc' = "ty" /\ ty_open' = ty_open + 1
            ELSE /\ p' = TyBuild(PushErr(p, TypeErr, FoundOrNoData(p)))
                 /\ pc' = "ivd_default"
                 /\ ty_open' = ty_open
    /\ UNCHANGED <<toks, eof, rule, meets_requirements, is_input, guard,
                   ty_from, calls, run, first>>

\* ty::ty: the non-null marker
TyBang ==
    /\ pc = "ty_bang"
    /\ Ready
    /\ LET q == IF Peek(p) = "!" THEN Pop(p) ELSE p
       IN IF ty_open > 0
          THEN p' = q /\ pc' = "ty_close"
          ELSE p' = TyBuild(q) /\ pc' = "ivd_default"
    /\ UNCHANGED <<toks, eof, rule, meets_requirements, is_input, guard,
                   ty_from, ty_open, calls, run, first>>

\* ty::ty: the closing of a list type
TyClose ==
    /\ pc = "ty_close"
    /\ Ready
    /\ IF Peek(p) = "]"
       THEN p' = Pop(p) /\ ty_open' = ty_open - 1 /\ pc' = "ty_bang"
       ELSE /\ p' = TyBuild(PushErr(p, ListErr, FoundOrNoData(p)))
            /\ pc' = "ivd_default"
            /\ ty_open' = ty_open
    /\ UNCHANGED <<toks, eof, rule, meets_requirements, is_input, guard,
                   ty_from, calls, run, first>>

\* input.rs:124-126
DefaultValue ==
    /\ pc = "ivd_default"
    /\ Ready
    /\ IF Peek(p) = "="
       THEN p' = Bump(StartNode(p, "DEFAULT_VALUE"), "EQ") /\ pc' = "value"
       ELSE p' = p /\ pc' = "ivd_more"
    /\ UNCHANGED <<toks, eof, rule, meets_requirements, is_input, guard,
                   ty_from, ty_open, calls, run, first>>

\* value::default_value: the value after `=`
Value ==
    /\ pc = "value"
    /\ Ready
    /\ LET q == IF Peek(p) \in {"Str", "Name"} THEN Bump(p, "VALUE")
                ELSE PushErr(p, ValueErr, FoundOrNoData(p))
       IN p' = FinishNode(q, q.stack[Len(q.stack)])
    /\ pc' = "ivd_more"
    /\ UNCHANGED <<toks, eof, rule, meets_requirements, is_input, guard,
                   ty_from, ty_open, calls, run, first>>

\* input.rs:127-131, 147
More ==
    /\ pc = "ivd_more"
    /\ Ready
    /\ IF Peek(p) # None
       THEN /\ p' = FinishBeforeRecursing(p, guard)
            /\ is_input' = IsInputAfterElement
            /\ pc' = "ivd"
       ELSE /\ p' = DropGuard(p, guard)
            /\ is_input' = is_input
            /\ pc' = "ivd_sep"
    /\ UNCHANGED <<toks, eof, rule, meets_requirements, guard,
                   ty_from, ty_open, calls, run, first>>

\* input.rs:148-160
Separator ==
    /\ pc = "ivd_sep"
    /\ Ready
    /\ IF Peek(p) = ","
       THEN p' = BumpSeparator(p) /\ pc' = "ivd"
       ELSE IF ~is_input
            THEN IF PeekData(p) = None
                 THEN pc' = "panic" /\ p' = p
                 ELSE p' = PushErr(p, EmptyErr, PeekData(p)) /\ pc' = "ifd_close"
            ELSE p' = p /\ pc' = "ifd_close"
    /\ UNCHANGED <<toks, eof, rule, meets_requirements, is_input, guard,
                   ty_from, ty_open, calls, run, first>>

\* input.rs:96-107, and 34 for a definition
ClosingBrace ==
    /\ pc = "ifd_close"
    /\ Ready
    /\ LET q == IF Peek(p) = "}" THEN Bump(p, "R_CURLY")
                ELSE PushErr(p, ClosingErr, FoundOrNoData(p))
           r == FinishNode(q, IfdNode(q))
       IN IF rule = "extension"
          THEN p' = r /\ pc' = "requirements"
          ELSE p' = Return(r) /\ pc' = "done"
    /\ UNCHANGED <<toks, eof, rule, meets_requirements, is_input, guard,
                   ty_from, ty_open, calls, run, first>>

\* input.rs:73-84
Requirements ==
    /\ pc = "requirements"
    /\ MissingRequirements(meets_requirements) => Ready
    /\ p' = Return(IF MissingRequirements(meets_requirements)
                   THEN PushErr(p, ExtErr, FoundOrNoData(p))
                   ELSE p)
    /\ pc' = "done"
    /\ UNCHANGED <<toks, eof, rule, meets_requirements, is_input, guard,
                   ty_from, ty_open, calls, run, first>>

Next ==
    \/ Lex
    \/ input_object_type_definition
    \/ input_object_type_extension
    \/ NameStep
    \/ DirectivesClause
    \/ Directive
    \/ DirectiveName
    \/ FieldsClause
    \/ input_value_definition
    \/ Colon
    \/ Type
    \/ TyToken
    \/ TyBang
    \/ TyClose
    \/ DefaultValue
    \/ Value
    \/ More
    \/ Separator
    \/ ClosingBrace
    \/ Requirements

Spec == Init /\ [][Next]_vars

----
\* The same stream parsed a second time with the missing Name supplied

NameMissing ==
    IF Len(toks) = Len(Keywords(rule)) THEN TRUE
    ELSE toks[Len(Keywords(rule)) + 1] # "Name"

Result == [tree |-> p.tree, errs |-> p.errs, pc |-> pc, pos |-> p.pos]

\* Run 1 has ended on a stream without a Name: parse the stream again with a
\* Name inserted after the keywords.
Reparse ==
    /\ run = 1
    /\ pc \in {"done", "panic"}
    /\ NameMissing
    /\ first' = Result
    /\ run' = 2
    /\ toks' = Keywords(rule) \o <<"Name">>
                 \o SubSeq(toks, Len(Keywords(rule)) + 1, Len(toks))
    /\ p' = NewParser
    /\ pc' = "start"
    /\ meets_requirements' = FALSE
    /\ is_input' = FALSE
    /\ guard' = 0
    /\ ty_from' = 0
    /\ ty_open' = 0
    /\ calls' = <<>>
    /\ UNCHANGED <<eof, rule>>

NextPair == Next \/ Reparse

SpecPair == Init /\ [][NextPair]_vars

----
\* Reading the tree

\* The parent of node i: the last node before it that is one level up.
Parent(tree, i) ==
    IF tree[i].depth = 0 THEN 0
    ELSE CHOOSE j \in 1..(i - 1) :
             /\ tree[j].depth = tree[i].depth - 1
             /\ \A k \in (j + 1)..(i - 1) : tree[k].depth >= tree[i].depth

ParentKind(tree, i) == IF Parent(tree, i) = 0 THEN "" ELSE tree[Parent(tree, i)].kind

Children(tree, i) == {j \in (i + 1)..Len(tree) : Parent(tree, j) = i}

NodesOf(tree, kind) == {i \in 1..Len(tree) : tree[i].kind = kind}

IsLeaf(n) == n.leaf

\* The texts of the leaves, in document order.
LeafTexts(tree) ==
    LET leaves == SelectSeq(tree, IsLeaf)
    IN [i \in 1..Len(leaves) |-> leaves[i].text]

Count(errs, msg) == Cardinality({i \in 1..Len(errs) : errs[i].msg = msg})

Closed(q) == {q.closed[i][2] : i \in 1..Len(q.closed)}

----
\* The documented grammar (the txt blocks of input.rs), as a recognizer

\* What may follow a complete input value definition.
AfterElement(t) ==
    IF t = "Str" THEN "desc"
    ELSE IF t = "Name" THEN "fname"
    ELSE IF t = "," THEN "sep"
    ELSE IF t = "}" THEN "end"
    ELSE "bad"

\* One token t read in state g = [st, d]: d counts the open list types.
GStep(g, t) ==
    LET st == g.st
        d == g.d
        to(x) == [st |-> x, d |-> d]
    IN CASE st = "kw" -> to(IF t = "Name" THEN "name" ELSE "bad")
         [] st \in {"name", "dirs"} ->
                to(IF t = "@" THEN "dirAt" ELSE IF t = "{" THEN "open" ELSE "bad")
         [] st = "dirAt" -> to(IF t = "Name" THEN "dirs" ELSE "bad")
         [] st \in {"open", "sep"} ->
                to(IF t = "Str" THEN "desc" ELSE IF t = "Name" THEN "fname" ELSE "bad")
         [] st = "desc" -> to(IF t = "Name" THEN "fname" ELSE "bad")
         [] st = "fname" -> to(IF t = ":" THEN "type" ELSE "bad")
         [] st = "type" ->
                IF t = "Name" THEN to("tyname")
                ELSE IF t = "[" THEN [st |-> "type", d |-> d + 1]
                ELSE to("bad")
         [] st \in {"tyname", "tybang"} ->
                IF t = "!" /\ st = "tyname" THEN to("tybang")
                ELSE IF d > 0
                     THEN IF t = "]" THEN [st |-> "tyname", d |-> d - 1] ELSE to("bad")
                     ELSE IF t = "=" THEN to("eq")
                          ELSE IF t = "@" THEN to("fdirAt")
                          ELSE to(AfterElement(t))
         [] st = "eq" -> to(IF t \in {"Str", "Name"} THEN "valued" ELSE "bad")
         [] st = "valued" -> to(IF t = "@" THEN "fdirAt" ELSE AfterElement(t))
         [] st = "fdirAt" -> to(IF t = "Name" THEN "fdirs" ELSE "bad")
         [] st = "fdirs" -> to(IF t = "@" THEN "fdirAt" ELSE AfterElement(t))
         [] OTHER -> to("bad")

RECURSIVE GRun(_, _)
GRun(g, ts) == IF ts = <<>> THEN g ELSE GRun(GStep(g, Head(ts)), Tail(ts))

\* The state of the grammar after the tokens supplied so far.
GState ==
    GRun([st |-> "kw", d |-> 0], SubSeq(toks, Len(Keywords(rule)) + 1, Len(toks)))

\* A stream may end here.
GComplete(g) ==
    /\ g.d = 0
    /\ \/ g.st \in {"dirs", "end"}
       \/ g.st = "name" /\ rule = "definition"

\* The tokens supplied so far begin a stream of the documented grammar, and
\* are one if the stream has ended.
ConformsToGrammar ==
    /\ GState.st # "bad"
    /\ eof => GComplete(GState)

----
\* Properties

Finished == pc = "done"

HasFields == NodesOf(p.tree, IFD) # {}

\* C1: no run reaches a crash state: every mismatch becomes an error in the
\* sink and the rule returns, also when the stream ends inside the fields block.
C1_NeverPanics == pc # "panic"

\* C2: a stream of the documented grammar produces no error.
C2_ValidInputNoErrors == ConformsToGrammar => p.errs = <<>>

\* C3: when the rule has returned, the texts of the leaves of the tree, in
\* document order, are the texts of the tokens the rule consumed, in order.
C3_Lossless == Finished => LeafTexts(p.tree) = SubSeq(toks, 1, p.pos)

\* An input value definition that ends at its colon.
EndsAtColon(tree, i) ==
    /\ \E j \in Children(tree, i) : tree[j].kind = "COLON"
    /\ \A j \in Children(tree, i) : tree[j].kind # "TYPE"

Childless(tree, i) == Children(tree, i) = {}

\* C4: whenever a missing Name or a missing Type is recorded, the finished
\* tree holds at that slot a NAME, respectively TYPE, node without children.
C4_Placeholder ==
    Finished =>
        /\ Count(p.errs, NameErr) > 0 =>
               \E i \in NodesOf(p.tree, "NAME") :
                   p.tree[i].depth = 1 /\ Childless(p.tree, i)
        /\ Count(p.errs, IvdTypeErr) > 0 =>
               \E i \in NodesOf(p.tree, "TYPE") :
                   ParentKind(p.tree, i) = IVD /\ Childless(p.tree, i)

\* C4, amended: a missing Name or Type is recorded as an error only, and no
\* node stands for it: with the Name error the rule's node has no NAME child,
\* and the closed input value definitions that end at their colon, with no
\* TYPE child, are as many as the Type errors.
C4_NoPlaceholder ==
    /\ Count(p.errs, NameErr) > 0 =>
           \A i \in NodesOf(p.tree, "NAME") : p.tree[i].depth # 1
    /\ Count(p.errs, IvdTypeErr) =
           Cardinality({i \in NodesOf(p.tree, IVD) \cap Closed(p) :
                            EndsAtColon(p.tree, i)})

C4_Witness ==
    /\ Finished
    /\ Count(p.errs, NameErr) = 1
    /\ Count(p.errs, IvdTypeErr) = 1

\* A clause of the extension's tail was taken: the rule's node has a
\* DIRECTIVES or an INPUT_FIELDS_DEFINITION child.
ClauseFired ==
    \E i \in 1..Len(p.tree) :
        p.tree[i].depth = 1 /\ p.tree[i].kind \in {"DIRECTIVES", IFD}

\* C5: the extension's requirements error is recorded once if neither the
\* directives nor the fields clause was taken and never otherwise, only when
\* both have been tried (it is the last thing the rule does), and its found
\* part is the lookahead, or 'no further data' at the end of the stream.
C5_RequirementsError ==
    /\ ~Finished => Count(p.errs, ExtErr) = 0
    /\ (Finished /\ rule = "extension") =>
           /\ Count(p.errs, ExtErr) = (IF ClauseFired THEN 0 ELSE 1)
           /\ ~ClauseFired =>
                  p.errs[Len(p.errs)] =
                      [msg |-> ExtErr,
                       found |-> IF p.pos < Len(toks) THEN toks[p.pos + 1] ELSE NoData]

C5_Witness ==
    /\ Finished
    /\ rule = "extension"
    /\ eof
    /\ Count(p.errs, ExtErr) = 1
    /\ p.errs[Len(p.errs)].found = NoData

ThisFile == {IOTD, IOTE, IFD, IVD}

\* C6: every guard closes the frame it opened and no frame is closed twice;
\* when input_value_definition returns the open frames are the rule's node
\* and the fields node, as on entry; when input_fields_definition returns,
\* the rule's node alone; when the rule returns none is open and every frame
\* of this file was closed exactly once.
C6_FramesClosedOnce ==
    /\ \A i \in 1..Len(p.closed) : p.closed[i][1] = p.closed[i][2]
    /\ \A i, j \in 1..Len(p.closed) : i # j => p.closed[i][2] # p.closed[j][2]
    /\ pc \in {"ivd", "ivd_sep", "ifd_close"} => p.stack = <<1, IfdNode(p)>>
    /\ pc = "requirements" => p.stack = <<1>>
    /\ Finished =>
           /\ p.stack = <<>>
           /\ \A i \in 1..Len(p.tree) :
                  p.tree[i].kind \in ThisFile =>
                      Cardinality({k \in 1..Len(p.closed) : p.closed[k][2] = i}) = 1

C6_Witness ==
    /\ Finished
    /\ p.errs # <<>>
    /\ is_input
    /\ Cardinality(NodesOf(p.tree, IVD)) >= 2

\* C7: between two calls of input_value_definition the cursor advances, the
\* calling invocation having consumed a Name or a `,` first; so the calls are
\* at most the tokens that remained at the first call, plus one.
C7_ForwardProgress ==
    /\ \A k \in 1..(Len(calls) - 1) :
           /\ calls[k] < calls[k + 1]
           /\ toks[calls[k] + 1] \in {"Name", ","}
    /\ calls # <<>> => Len(calls) <= (Len(toks) - calls[1]) + 1

C7_Witness ==
    /\ Finished
    /\ Len(calls) >= 4
    /\ \E k \in 1..Len(calls) - 1 : toks[calls[k] + 1] = ","
    /\ \E k \in 1..Len(calls) - 1 : toks[calls[k] + 1] = "Name"

\* The list is over: input_value_definition has returned.
ListReturned == HasFields /\ pc \in {"ifd_close", "requirements", "done"}

HadCompleteElement ==
    \E k \in 1..(Len(calls) - 1) :
        /\ toks[calls[k] + 1] = "Name"
        /\ toks[calls[k] + 2] = ":"
        /\ toks[calls[k] + 3] \in {"Name", "["}

KwLen == Len(Keywords(rule))

\* The tree without the NAME node of the rule and its IDENT leaf.
WithoutName(tree) ==
    SubSeq(tree, 1, KwLen + 1) \o SubSeq(tree, KwLen + 4, Len(tree))

\* C9: with the Name missing the rule records one Name error whose found
\* part is the lookahead, consumes nothing for it, and goes on: the run ends
\* as the run on the same stream with the Name present ends, with the same
\* tree but for the NAME node and the same errors after the Name error.
C9_MissingNameGoesOn ==
    /\ (run = 1 /\ NameMissing /\ pc = "directives") =>
           /\ p.pos = KwLen
           /\ p.errs = <<[msg |-> NameErr, found |-> FoundOrNoData(p)]>>
    /\ (run = 2 /\ pc \in {"done", "panic"}) =>
           /\ first.pc = pc
           /\ first.pos + 1 = p.pos
           /\ first.tree = WithoutName(p.tree)
           /\ Count(first.errs, NameErr) = 1
           /\ Tail(first.errs) = p.errs

C9_Witness ==
    /\ run = 2
    /\ Finished
    /\ NodesOf(p.tree, "DIRECTIVES") # {}
    /\ NodesOf(p.tree, IVD) # {}
    /\ Len(first.errs) = 1

\* C10: the fields list is flat: every INPUT_VALUE_DEFINITION, every `,` and
\* both braces are children of the INPUT_FIELDS_DEFINITION node, and whenever
\* the next element, a separator or the closing brace is due, the frame on
\* top of the builder's stack is the INPUT_FIELDS_DEFINITION.
C10_FlatList ==
    /\ \A i \in 1..Len(p.tree) :
           p.tree[i].kind \in {IVD, "COMMA", "L_CURLY", "R_CURLY"} =>
               ParentKind(p.tree, i) = IFD
    /\ pc \in {"ivd", "ivd_sep", "ifd_close"} =>
           p.tree[p.stack[Len(p.stack)]].kind = IFD

C10_Witness ==
    /\ Finished
    /\ Cardinality(NodesOf(p.tree, IVD)) >= 2
    /\ NodesOf(p.tree, "COMMA") # {}
    /\ Count(p.errs, IvdNameErr) = 1
    /\ is_input

====
